---- MODULE Spec2Model ----
(***************************************************************************)
(* Model of nf_core/components/update.py (class ComponentUpdate): the      *)
(* update of vendored modules / subworkflows of a pipeline.                *)
(*                                                                         *)
(* Python values: None is the string "none"; a commit sha is one of the    *)
(* strings of Shas; names of components, install directories and remotes   *)
(* are strings.  An exception that leaves update() is recorded in `error`. *)
(***************************************************************************)
EXTENDS Naturals, Sequences, FiniteSets, TLC

VARIABLES
  component_type,   \* self.component_type
  component,        \* self.component
  update_all,       \* self.update_all
  force,            \* self.force
  prompt,           \* self.prompt
  sha,              \* self.sha
  show_diff,        \* self.show_diff: "None", "True" or "False"
  save_diff_fn,     \* self.save_diff_fn (FALSE: not given, TRUE: a file name)
  update_config,    \* self.update_config, the `update:` block of .nf-core.yml
  modules_json,     \* self.modules_json: the in-memory copy of modules.json
  disk_json,        \* modules.json as it is on disk
  n_dumps,          \* number of times modules.json was written to disk
  pipeline,         \* the component directories of the pipeline, on disk
  diff_file,        \* what has been appended to the diff file
  log,              \* the lines logged by the planners
  registry,         \* the remote: catalog, fetch failures, patch conflicts
  environment,      \* repo_type and validity of the pipeline directory, --branch
  stack,            \* the active calls of update(), innermost last
  status,           \* "running", "returned", "raised" or "cut"
  result,           \* the value the outermost update() returned
  error,            \* the exception that left update()
  history,          \* what the run did, for the properties below
  tmp_dirs          \* the directories of tempfile.mkdtemp() that exist

vars == <<component_type, component, update_all, force, prompt, sha, show_diff,
          save_diff_fn, update_config, modules_json, disk_json, n_dumps,
          pipeline, diff_file, log, registry, environment, stack, status,
          result, error, history, tmp_dirs>>

(***************************************************************************)
(* The universe: two remotes, the components installed from them.          *)
(***************************************************************************)
NONE == "none"

MODULES == "modules"

SUBWORKFLOWS == "subworkflows"

\* Commits that exist on the branch of a remote; "ghost" exists nowhere.
Shas == {"old", "latest"}

\* ModulesRepo.repo_path of a remote: the directory its components install to.
RepoPath(url) == IF url = "r1" THEN "nf-core" ELSE "d2"

Key(repo, type, dir, name) == [repo |-> repo, type |-> type, dir |-> dir, name |-> name]

KM1 == Key("r1", MODULES, "nf-core", "m1")

KM2 == Key("r1", MODULES, "nf-core", "m2")

KM4 == Key("r1", MODULES, "other", "m4")

KS1 == Key("r1", SUBWORKFLOWS, "nf-core", "s1")

KM3 == Key("r2", MODULES, "d2", "m3")

\* modules.json is kept sorted: this is the order every scan of it follows.
KeyOrder == <<KM1, KM2, KM4, KS1, KM3>>

AllKeys == {KeyOrder[i] : i \in 1..Len(KeyOrder)}

RepoOrder == <<"r1", "r2">>

Repos == {"r1", "r2"}

Branches == {"master", "dev"}

\* The (remote, branch) pairs a ModulesRepo can be asked for.
Sources == Repos \X Branches

Dirs == {"nf-core", "other", "d2"}

Names == {"m1", "m2", "m4", "s1", "m3"}

TypeOfName(n) == IF n = "s1" THEN SUBWORKFLOWS ELSE MODULES

(***************************************************************************)
(* ModulesJson (nf_core/modules/modules_json.py): the persisted state.     *)
(* An entry that is not installed has present = FALSE.                     *)
(***************************************************************************)
\* Whether modules.json has an entry under repos[repo][type][dir][name].
Recorded(mj, type, name, repo, dir) ==
  LET k == Key(repo, type, dir, name)
  IN  k \in AllKeys /\ mj[k].present

get_component_version(mj, type, name, repo, dir) ==
  IF Recorded(mj, type, name, repo, dir) THEN mj[Key(repo, type, dir, name)].git_sha
  ELSE NONE

get_component_branch(mj, type, name, repo, dir) ==
  IF Recorded(mj, type, name, repo, dir) THEN mj[Key(repo, type, dir, name)].branch
  ELSE NONE

\* get_patch_fn looks under "modules" and "subworkflows" alike; TRUE stands
\* for the recorded relative path <type>/<dir>/<name>/<name>.diff.
get_patch_fn(mj, name, repo, dir) ==
  \E k \in AllKeys : /\ k.repo = repo /\ k.dir = dir /\ k.name = name
                     /\ mj[k].present /\ mj[k].patch

\* get_all_components(type)[repo]: the (dir, name) pairs, as keys, in order.
InstalledOf(mj, type, repo) ==
  SelectSeq(KeyOrder, LAMBDA k : mj[k].present /\ k.type = type /\ k.repo = repo)

\* The remotes get_all_components(type) has a key for.
ReposWith(mj, type) ==
  SelectSeq(RepoOrder, LAMBDA r : Len(InstalledOf(mj, type, r)) > 0)

\* ModulesJson.update: records the version under the key of the component.
mj_update(mj, type, repo, name, version) ==
  LET k == Key(repo, type, RepoPath(repo), name)
  IN  IF k \in AllKeys
      THEN [mj EXCEPT ![k].present = TRUE, ![k].git_sha = version]
      ELSE mj

\* ModulesJson.add_patch_entry: records the patch path of the component
\* installed from `repo` in `dir`.
mj_add_patch_entry(mj, name, repo, dir) ==
  [k \in AllKeys |->
     IF k.repo = repo /\ k.dir = dir /\ k.name = name /\ mj[k].present
     THEN [mj[k] EXCEPT !.patch = TRUE] ELSE mj[k]]

(***************************************************************************)
(* The `update:` block of .nf-core.yml.  A value is a record with the kind *)
(* of the YAML value: "absent" (no key), "true", "false", "str" (a sha),   *)
(* "dict" (a mapping one level down) or "bad" (a number).                  *)
(***************************************************************************)
CompEntry(kind, s) == [kind |-> kind, sha |-> s]

NoComps == [n \in Names |-> CompEntry("absent", NONE)]

DirEntry(kind, s) == [kind |-> kind, sha |-> s, comps |-> NoComps]

DirDict(comps) == [kind |-> "dict", sha |-> NONE, comps |-> comps]

NoDirs == [d \in Dirs |-> DirEntry("absent", NONE)]

RepoEntry(kind, s) == [kind |-> kind, sha |-> s, dirs |-> NoDirs]

RepoDict(dirs) == [kind |-> "dict", sha |-> NONE, dirs |-> dirs]

NoConfig == [r \in Repos |-> RepoEntry("absent", NONE)]

(***************************************************************************)
(* get_single_component_info                                               *)
(***************************************************************************)
\* The label of an installed component in `choices`: the bare name in the
\* default directory, "<dir>/<name>" elsewhere.
ChoiceLabel(dir, name) ==
  IF dir = "nf-core" THEN name
  ELSE IF name = "m3" THEN "d2/m3"
  ELSE IF name = "m4" THEN "other/m4"
  ELSE "prefixed"

Choices(mj, type, repo) ==
  LET comps == InstalledOf(mj, type, repo)
  IN  {ChoiceLabel(comps[i].dir, comps[i].name) : i \in 1..Len(comps)}

\* Lines 314-336 as they would be if a sha of the command line won over
\* the sha of the configuration.
SingleConfigCliWins(cfg, repo, install_dir, comp, cli) ==
  LET rc == cfg[repo]
      dc == rc.dirs[install_dir]
      ce == dc.comps[comp]
      keep == [outcome |-> "ok", sha |-> cli, logs |-> <<>>]
      fail(e) == [outcome |-> e, sha |-> NONE, logs |-> <<>>]
  IN  IF rc.kind = "absent" THEN keep
      ELSE IF rc.kind # "dict" THEN fail("AttributeError")
      ELSE IF dc.kind \in {"absent", "str"} THEN keep
      ELSE IF dc.kind # "dict" THEN fail("TypeError")
      ELSE IF ce.kind \in {"absent", "true"} THEN keep
      ELSE IF ce.kind # "str" THEN fail("UserWarning")
      ELSE IF cli # NONE
      THEN [outcome |-> "ok", sha |-> cli,
            logs |-> <<[kind |-> "override_warning", names |-> <<comp>>]>>]
      ELSE [outcome |-> "ok", sha |-> ce.sha,
            logs |-> <<[kind |-> "config_entry", names |-> <<comp>>]>>]

\* Lines 314-336 as they would be if an entry `false` were passed over
\* like an entry `true`.
SingleConfigFalseAsTrue(cfg, repo, install_dir, comp, cli) ==
  LET rc == cfg[repo]
      dc == rc.dirs[install_dir]
      ce == dc.comps[comp]
      keep == [outcome |-> "ok", sha |-> cli, logs |-> <<>>]
      fail(e) == [outcome |-> e, sha |-> NONE, logs |-> <<>>]
  IN  IF rc.kind = "absent" THEN keep
      ELSE IF rc.kind # "dict" THEN fail("AttributeError")
      ELSE IF dc.kind \in {"absent", "str"} THEN keep
      ELSE IF dc.kind # "dict" THEN fail("TypeError")
      ELSE IF ce.kind \in {"absent", "true", "false"} THEN keep
      ELSE IF ce.kind # "str" THEN fail("UserWarning")
      ELSE [outcome |-> "ok", sha |-> ce.sha,
            logs |-> <<[kind |-> IF cli # NONE THEN "override_warning" ELSE "config_entry",
                        names |-> <<comp>>]>>]

\* Lines 314-336: the sha of the plan entry from the entry of the component
\* in the configuration, else from the command line.
\*   update_config.get(url, {}).get(install_dir, {}) fails on a value that
\*   has no get (a string, a boolean, a number): AttributeError;
\*   `component in <directory entry>` fails on a boolean or a number:
\*   TypeError; on a string it is a substring test, false for every name.
SingleConfig(cfg, repo, install_dir, comp, cli) ==
  LET rc == cfg[repo]
      dc == rc.dirs[install_dir]
      ce == dc.comps[comp]
      keep == [outcome |-> "ok", sha |-> cli, logs |-> <<>>]
      fail(e) == [outcome |-> e, sha |-> NONE, logs |-> <<>>]
  IN  IF rc.kind = "absent" THEN keep
      ELSE IF rc.kind # "dict" THEN fail("AttributeError")
      ELSE IF dc.kind \in {"absent", "str"} THEN keep
      ELSE IF dc.kind # "dict" THEN fail("TypeError")
      ELSE IF ce.kind \in {"absent", "true"} THEN keep
      ELSE IF ce.kind = "false" THEN fail("UserWarning")
      ELSE IF ce.kind # "str" THEN fail("UserWarning")
      ELSE [outcome |-> "ok", sha |-> ce.sha,
            logs |-> <<[kind |-> IF cli # NONE THEN "override_warning" ELSE "config_entry",
                        names |-> <<comp>>]>>]

\* Lines 284-356 for the component named `comp` (typed, or picked at the
\* prompt of line 292); `avail` is get_avail_components(type).
get_single_component_info(mj, cfg, type, repo, comp, cli, avail) ==
  LET comps == InstalledOf(mj, type, repo)
      dirs  == SelectSeq(comps, LAMBDA k : k.name = comp)
      fail(e) == [outcome |-> e, plan |-> <<>>, logs |-> <<>>]
  IN  IF Len(comps) = 0 THEN fail("TypeError")               \* line 287, None
      ELSE IF Len(dirs) = 0 THEN fail("IndexError")           \* line 299
      ELSE IF comp \notin Choices(mj, type, repo) THEN fail("LookupError")
      ELSE IF comp \notin avail THEN fail("LookupError")
      ELSE LET install_dir == dirs[1].dir
               c == SingleConfig(cfg, repo, install_dir, comp, cli)
           IN  IF c.outcome # "ok" THEN fail(c.outcome)
               ELSE [outcome |-> "ok",
                     plan |-> <<[repo |-> repo,
                                 branch |-> get_component_branch(mj, type, comp, repo, install_dir),
                                 component |-> comp,
                                 sha |-> c.sha,
                                 patch |-> get_patch_fn(mj, comp, repo, install_dir)]>>,
                     logs |-> c.logs]

(***************************************************************************)
(* get_all_components_info                                                 *)
(***************************************************************************)
\* One (component, sha, branch) tuple of components_info.
Item(mj, type, repo, dir, comp, s) ==
  [component |-> comp, sha |-> s,
   branch |-> get_component_branch(mj, type, comp, repo, dir)]

\* components_info[repo][dir].append(item), the list created on KeyError.
\* The dict of one repo is the sequence of its (dir, items) in insertion order.
DictAppend(d, dir, item) ==
  IF \E i \in 1..Len(d) : d[i].dir = dir
  THEN [i \in 1..Len(d) |->
          IF d[i].dir = dir THEN [d[i] EXCEPT !.items = Append(@, item)] ELSE d[i]]
  ELSE Append(d, [dir |-> dir, items |-> <<item>>])

RECURSIVE AppendAll(_, _, _, _, _, _)
\* The loops of lines 385-405, 413-434 and 503-523: every component of
\* `comps` is appended with the same sha.
AppendAll(d, mj, type, repo, comps, s) ==
  IF comps = <<>> THEN d
  ELSE AppendAll(DictAppend(d, Head(comps).dir,
                            Item(mj, type, repo, Head(comps).dir, Head(comps).name, s)),
                 mj, type, repo, Tail(comps), s)

\* What the scan of one repo has gathered so far.
RepoAcc(info, skc, ovr, ovc, err) ==
  [info |-> info, skipped_components |-> skc, overridden_repos |-> ovr,
   overridden_components |-> ovc, error |-> err]

RECURSIVE DirDictLoop(_, _, _, _, _, _, _)
\* Lines 445-498: the loop over ALL components of the repo (the loop
\* variable component_dir is rebound) against the mapping of one directory.
DirDictLoop(acc, mj, type, repo, comps, dir_config, cli) ==
  IF comps = <<>> \/ acc.error # NONE THEN acc
  ELSE LET k  == Head(comps)
           ce == dir_config[k.name]
           nxt ==
             IF ce.kind \in {"absent", "true"}
             THEN [acc EXCEPT !.info = DictAppend(@, k.dir, Item(mj, type, repo, k.dir, k.name, cli))]
             ELSE IF ce.kind = "str"
             THEN [acc EXCEPT !.info = DictAppend(@, k.dir, Item(mj, type, repo, k.dir, k.name, ce.sha)),
                              !.overridden_components =
                                 IF cli # NONE THEN Append(@, k.name) ELSE @]
             ELSE IF ce.kind = "false"
             THEN [acc EXCEPT !.skipped_components = Append(@, [dir |-> k.dir, name |-> k.name])]
             ELSE [acc EXCEPT !.error = "UserWarning"]
       IN  DirDictLoop(nxt, mj, type, repo, Tail(comps), dir_config, cli)

RECURSIVE SkipLoop(_, _, _)
\* Lines 438-440: one label per component of the skipped directory (the
\* label holds the whole list `components`, not the name).
SkipLoop(skc, comps, component_dir) ==
  IF comps = <<>> THEN skc
  ELSE SkipLoop(IF Head(comps).dir = component_dir
                THEN Append(skc, [dir |-> component_dir, name |-> "components"])
                ELSE skc,
                Tail(comps), component_dir)

\* Lines 409-498 as they would be without lines 412 and 444, which empty
\* components_info[repo_name].
DirStepNoReset(acc, mj, type, repo, comps, rc, component_dir, cli) ==
  LET dc == rc.dirs[component_dir]
  IN  IF dc.kind = "absent" THEN [acc EXCEPT !.error = "KeyError"]
      ELSE IF dc.kind = "str"
      THEN [acc EXCEPT
              !.info = AppendAll(@, mj, type, repo,
                                 SelectSeq(comps, LAMBDA k : k.dir = component_dir), dc.sha),
              !.overridden_repos = IF cli # NONE THEN Append(@, repo) ELSE @]
      ELSE IF dc.kind = "false"
      THEN [acc EXCEPT !.skipped_components = SkipLoop(@, comps, component_dir)]
      ELSE IF dc.kind = "dict"
      THEN DirDictLoop(acc, mj, type, repo, comps, dc.comps, cli)
      ELSE acc

\* Lines 409-498 for one component_dir of the set of line 408.
DirStep(acc, mj, type, repo, comps, rc, component_dir, cli) ==
  LET dc == rc.dirs[component_dir]
  IN  IF dc.kind = "absent" THEN [acc EXCEPT !.error = "KeyError"]
      ELSE IF dc.kind = "str"
      THEN [acc EXCEPT
              !.info = AppendAll(<<>>, mj, type, repo,
                                 SelectSeq(comps, LAMBDA k : k.dir = component_dir), dc.sha),
              !.overridden_repos = IF cli # NONE THEN Append(@, repo) ELSE @]
      ELSE IF dc.kind = "false"
      THEN [acc EXCEPT !.skipped_components = SkipLoop(@, comps, component_dir)]
      ELSE IF dc.kind = "dict"
      THEN DirDictLoop([acc EXCEPT !.info = <<>>], mj, type, repo, comps, dc.comps, cli)
      ELSE acc

RECURSIVE DirLoop(_, _, _, _, _, _, _, _)
\* Line 408: the directories of the repo, in the order `dirs` the set yields.
DirLoop(acc, mj, type, repo, comps, rc, dirs, cli) ==
  IF dirs = <<>> \/ acc.error # NONE THEN acc
  ELSE DirLoop(DirStep(acc, mj, type, repo, comps, rc, Head(dirs), cli),
               mj, type, repo, comps, rc, Tail(dirs), cli)

\* Lines 382-529 as they would be if the sha of the command line won over
\* the sha of a repo.
RepoStepCliWins(mj, cfg, type, repo, cli, perm) ==
  LET comps == InstalledOf(mj, type, repo)
      rc    == cfg[repo]
      dirs  == SelectSeq(perm, LAMBDA d : \E i \in 1..Len(comps) : comps[i].dir = d)
      empty == RepoAcc(<<>>, <<>>, <<>>, <<>>, NONE)
  IN  IF rc.kind \in {"absent", "true"}
      THEN [skipped |-> FALSE, acc |-> [empty EXCEPT !.info = AppendAll(<<>>, mj, type, repo, comps, cli)]]
      ELSE IF rc.kind = "dict"
      THEN [skipped |-> FALSE, acc |-> DirLoop(empty, mj, type, repo, comps, rc, dirs, cli)]
      ELSE IF rc.kind = "str"
      THEN [skipped |-> FALSE,
            acc |-> [empty EXCEPT
                       !.info = AppendAll(<<>>, mj, type, repo, comps,
                                          IF cli # NONE THEN cli ELSE rc.sha),
                       !.overridden_repos = IF cli # NONE THEN <<repo>> ELSE <<>>]]
      ELSE IF rc.kind = "false"
      THEN [skipped |-> TRUE, acc |-> empty]
      ELSE [skipped |-> FALSE, acc |-> [empty EXCEPT !.error = "UserWarning"]]

\* Lines 382-529 as they would be if the `false` of a repo were taken for
\* `true`: its components are planned.
RepoStepFalseAsTrue(mj, cfg, type, repo, cli, perm) ==
  LET comps == InstalledOf(mj, type, repo)
      rc    == cfg[repo]
      dirs  == SelectSeq(perm, LAMBDA d : \E i \in 1..Len(comps) : comps[i].dir = d)
      empty == RepoAcc(<<>>, <<>>, <<>>, <<>>, NONE)
  IN  IF rc.kind \in {"absent", "true", "false"}
      THEN [skipped |-> rc.kind = "false",
            acc |-> [empty EXCEPT !.info = AppendAll(<<>>, mj, type, repo, comps, cli)]]
      ELSE IF rc.kind = "dict"
      THEN [skipped |-> FALSE, acc |-> DirLoop(empty, mj, type, repo, comps, rc, dirs, cli)]
      ELSE IF rc.kind = "str"
      THEN [skipped |-> FALSE,
            acc |-> [empty EXCEPT !.info = AppendAll(<<>>, mj, type, repo, comps, rc.sha),
                                  !.overridden_repos = IF cli # NONE THEN <<repo>> ELSE <<>>]]
      ELSE [skipped |-> FALSE, acc |-> [empty EXCEPT !.error = "UserWarning"]]

\* Lines 382-529 for one repo of modules.json; `perm` is the order in which
\* a Python set of directory names is iterated.
RepoStep(mj, cfg, type, repo, cli, perm) ==
  LET comps == InstalledOf(mj, type, repo)
      rc    == cfg[repo]
      dirs  == SelectSeq(perm, LAMBDA d : \E i \in 1..Len(comps) : comps[i].dir = d)
      empty == RepoAcc(<<>>, <<>>, <<>>, <<>>, NONE)
  IN  IF rc.kind \in {"absent", "true"}
      THEN [skipped |-> FALSE, acc |-> [empty EXCEPT !.info = AppendAll(<<>>, mj, type, repo, comps, cli)]]
      ELSE IF rc.kind = "dict"
      THEN [skipped |-> FALSE, acc |-> DirLoop(empty, mj, type, repo, comps, rc, dirs, cli)]
      ELSE IF rc.kind = "str"
      THEN [skipped |-> FALSE,
            acc |-> [empty EXCEPT !.info = AppendAll(<<>>, mj, type, repo, comps, rc.sha),
                                  !.overridden_repos = IF cli # NONE THEN <<repo>> ELSE <<>>]]
      ELSE IF rc.kind = "false"
      THEN [skipped |-> TRUE, acc |-> empty]
      ELSE [skipped |-> FALSE, acc |-> [empty EXCEPT !.error = "UserWarning"]]

RECURSIVE RepoLoop(_, _, _, _, _, _, _)
\* Lines 381-529: the loop over the repos of get_all_components(type).
RepoLoop(tot, mj, cfg, type, repos, cli, perm) ==
  IF repos = <<>> \/ tot.error # NONE THEN tot
  ELSE LET repo == Head(repos)
           r    == RepoStep(mj, cfg, type, repo, cli, perm)
           nxt  == [infos |-> Append(tot.infos, [repo |-> repo, info |-> r.acc.info]),
                    skipped_repos |-> IF r.skipped THEN Append(tot.skipped_repos, repo)
                                      ELSE tot.skipped_repos,
                    skipped_components |-> tot.skipped_components \o r.acc.skipped_components,
                    overridden_repos |-> tot.overridden_repos \o r.acc.overridden_repos,
                    overridden_components |-> tot.overridden_components \o r.acc.overridden_components,
                    error |-> r.acc.error]
       IN  RepoLoop(nxt, mj, cfg, type, Tail(repos), cli, perm)

RECURSIVE Concat(_)
Concat(ss) == IF ss = <<>> THEN <<>> ELSE Head(ss) \o Concat(Tail(ss))

\* Lines 531-551: one summary line for each list that is not empty.
SummaryLogs(tot) ==
  LET line(kind, names) == IF names = <<>> THEN <<>> ELSE <<[kind |-> kind, names |-> names]>>
      label(skc) == [i \in 1..Len(skc) |-> skc[i].name]
  IN  line("skip_repos", tot.skipped_repos)
      \o line("skip_components", label(tot.skipped_components))
      \o line("override_repos", tot.overridden_repos)
      \o line("override_components", tot.overridden_components)

\* Lines 553-561: the tuples of components_info, repo by repo, directory by
\* directory, each with the branch its ModulesRepo will be made for.
Tuples(infos, branch) ==
  LET ofItem(repo, it) == [repo |-> repo, component |-> it.component, sha |-> it.sha,
                           branch |-> IF branch # NONE THEN branch ELSE it.branch]
      ofDir(repo, d)   == [i \in 1..Len(d.items) |-> ofItem(repo, d.items[i])]
      ofRepo(e)        == Concat([i \in 1..Len(e.info) |-> ofDir(e.repo, e.info[i])])
  IN  Concat([i \in 1..Len(infos) |-> ofRepo(infos[i])])

RECURSIVE GroupKeys(_, _)
\* The keys of repos_and_branches, in the order they were first inserted.
GroupKeys(tuples, seen) ==
  IF tuples = <<>> THEN seen
  ELSE LET g == <<Head(tuples).repo, Head(tuples).branch>>
       IN  GroupKeys(Tail(tuples),
                     IF \E i \in 1..Len(seen) : seen[i] = g THEN seen ELSE Append(seen, g))

\* Lines 564-575 as they would be if a remote that cannot be set up kept
\* its components.
FlattenKeepAll(tuples, reachable) ==
  LET keys == GroupKeys(tuples, <<>>)
      of(g) == SelectSeq(tuples, LAMBDA t : t.repo = g[1] /\ t.branch = g[2])
  IN  Concat([i \in 1..Len(keys) |-> of(keys[i])])

\* Lines 564-575: a ModulesRepo per (remote, branch); a pair that cannot
\* be set up (LookupError) loses its components; then the flat list.
Flatten(tuples, reachable) ==
  LET keys == SelectSeq(GroupKeys(tuples, <<>>), LAMBDA g : <<g[1], g[2]>> \in reachable)
      of(g) == SelectSeq(tuples, LAMBDA t : t.repo = g[1] /\ t.branch = g[2])
  IN  Concat([i \in 1..Len(keys) |-> of(keys[i])])

\* Lines 358-601; called without argument (line 113), so `branch` is None.
\* reg.avail: the catalog; reg.reachable: the (remote, branch) pairs a
\* ModulesRepo can be set up for.
get_all_components_info(mj, cfg, type, cli, branch, perm, reg) ==
  LET start == [infos |-> <<>>, skipped_repos |-> <<>>, skipped_components |-> <<>>,
                overridden_repos |-> <<>>, overridden_components |-> <<>>, error |-> NONE]
      tot   == RepoLoop(start, mj, cfg, type, ReposWith(mj, type), cli, perm)
      flat  == Flatten(Tuples(tot.infos, branch), reg.reachable)
      kept  == SelectSeq(flat, LAMBDA t : /\ t.component \in reg.avail
                                          /\ (t.sha = NONE \/ t.sha \in Shas))
  IN  IF tot.error # NONE
      THEN [outcome |-> tot.error, plan |-> <<>>, logs |-> <<>>]
      ELSE [outcome |-> "ok",
            plan |-> [i \in 1..Len(kept) |->
                        [repo |-> kept[i].repo, branch |-> kept[i].branch,
                         component |-> kept[i].component, sha |-> kept[i].sha,
                         patch |-> get_patch_fn(mj, kept[i].component, kept[i].repo,
                                                RepoPath(kept[i].repo))]],
            logs |-> SummaryLogs(tot)]

(***************************************************************************)
(* The files: a component directory (in the pipeline or in a temporary     *)
(* directory) is the version of its upstream files, whether they carry the *)
(* user's changes, and the baseline of the patch file it holds (or none).  *)
(***************************************************************************)
Content(ver, cust, pfile) == [ver |-> ver, cust |-> cust, pfile |-> pfile]

NoContent == Content(NONE, FALSE, NONE)

Path(type, dir, name) == [type |-> type, dir |-> dir, name |-> name]

DirAt(fs, p) == IF p \in DOMAIN fs THEN fs[p] ELSE NoContent

\* A patch made against a version applies to that version; on another
\* version it applies or not (ModulesDiffer.try_apply_patch, LookupError).
PatchApplies(reg, patch_base, version) == patch_base = version \/ reg.patch_applies

(***************************************************************************)
(* Bounds of the model.                                                    *)
(***************************************************************************)
\* Nested calls of update() that are followed; a deeper cascade is cut.
MaxDepth == 3

\* How many of the secondary options of a run differ from their default.
MaxOptions == 2

(***************************************************************************)
(* One call of update(): its local variables and where it stands.          *)
(***************************************************************************)
NewFrame(arg, ctype) ==
  [arg |-> arg, pc |-> "begin", ctype |-> ctype,
   plan |-> <<>>, i |-> 1,
   exit_value |-> TRUE, all_patches_successful |-> TRUE,
   old_modules_json |-> modules_json,
   current_version |-> NONE, version |-> NONE,
   dry_run |-> FALSE, patch_successful |-> TRUE,
   staged |-> NoContent,
   subworkflows_to_update |-> <<>>, modules_to_update |-> <<>>,
   original_component_type |-> NONE,
   before |-> [fs |-> pipeline, dumps |-> n_dumps]]

Top == stack[Len(stack)]

SetTop(f) == [stack EXCEPT ![Len(stack)] = f]

Running(pc) == status = "running" /\ Len(stack) > 0 /\ Top.pc = pc

Entry == Top.plan[Top.i]

\* component_dir, line 155.
EntryPath == Path(component_type, RepoPath(Entry.repo), Entry.component)

\* The variables no step of update() assigns.
Inputs == <<force, prompt, sha, update_config, registry, environment>>

\* An exception leaves update(): nothing catches it, the calls are abandoned
\* where they stand.
Raise(e) ==
  /\ status' = "raised"
  /\ error' = e
  /\ UNCHANGED <<result, stack>>

(***************************************************************************)
(* The initial states: a pipeline whose modules.json matches its           *)
(* directories, and one command.                                           *)
(***************************************************************************)
JsonEntry(present, ver, patch, installed_by) ==
  [present |-> present, git_sha |-> ver, branch |-> "master", patch |-> patch,
   installed_by |-> installed_by]

\* The directories a modules.json describes; with `lost`, the patch files
\* it records are not there (an earlier dry run moved them away, line 691).
PipelineOf(mj, lost) ==
  LET ks == {k \in AllKeys : mj[k].present}
      ps == {Path(k.type, k.dir, k.name) : k \in ks}
      of(p) == CHOOSE k \in ks : Path(k.type, k.dir, k.name) = p
  IN  [p \in ps |-> Content(mj[of(p)].git_sha, mj[of(p)].patch,
                            IF mj[of(p)].patch /\ ~lost THEN mj[of(p)].git_sha ELSE NONE)]

\* m1 has a patch or not; `users` are the modules subworkflow s1 uses, that
\* is, the modules whose installed_by names s1.
RunJson(users, s1ver, patched) ==
  [k \in AllKeys |->
     IF k = KM1 THEN JsonEntry(TRUE, "old", patched, {MODULES} \cup (IF "m1" \in users THEN {"s1"} ELSE {}))
     ELSE IF k = KM2 THEN JsonEntry(TRUE, "old", FALSE, {MODULES} \cup (IF "m2" \in users THEN {"s1"} ELSE {}))
     ELSE IF k = KS1 THEN JsonEntry(TRUE, s1ver, FALSE, {SUBWORKFLOWS})
     ELSE IF k = KM3 THEN JsonEntry(TRUE, "old", FALSE, {MODULES})
     ELSE JsonEntry(FALSE, NONE, FALSE, {})]

\* update(component) with the flags of the command line: a named module,
\* a named subworkflow, --all for either type; then no name (the question
\* of line 96) and a name with --all.
Invocations ==
  {[type |-> MODULES, arg |-> "m1", update_all |-> FALSE],
   [type |-> SUBWORKFLOWS, arg |-> "s1", update_all |-> FALSE],
   [type |-> MODULES, arg |-> NONE, update_all |-> TRUE],
   [type |-> SUBWORKFLOWS, arg |-> NONE, update_all |-> TRUE],
   [type |-> MODULES, arg |-> NONE, update_all |-> FALSE],
   [type |-> MODULES, arg |-> "m1", update_all |-> TRUE]}

\* (show_diff, save_diff_fn): --no-preview, --preview, --save-diff; then
\* neither (the question of line 121) and both.
Modes ==
  {[show_diff |-> "False", save_diff_fn |-> FALSE],
   [show_diff |-> "True", save_diff_fn |-> FALSE],
   [show_diff |-> "None", save_diff_fn |-> TRUE],
   [show_diff |-> "None", save_diff_fn |-> FALSE],
   [show_diff |-> "True", save_diff_fn |-> TRUE]}

CfgPinM1 ==
  [NoConfig EXCEPT !["r1"] =
     RepoDict([NoDirs EXCEPT !["nf-core"] =
                 DirDict([NoComps EXCEPT !["m1"] = CompEntry("str", "latest")])])]

CfgPinDir ==
  [NoConfig EXCEPT !["r1"] = RepoDict([NoDirs EXCEPT !["nf-core"] = DirEntry("str", "latest")])]

CfgSkipR2 == [NoConfig EXCEPT !["r2"] = RepoEntry("false", NONE)]

RunConfigs == {NoConfig, CfgPinM1, CfgPinDir, CfgSkipR2}

InstalledNames == {"m1", "m2", "s1", "m3"}

\* The options of a run that have a default: the first value of each.
Options ==
  [force : {FALSE, TRUE},
   prompt : {FALSE, TRUE},
   sha : {NONE, "old", "ghost"},
   cfg : RunConfigs,
   avail : {InstalledNames, InstalledNames \ {"s1"}},
   unfetchable : {{}, {"m2"}, {"s1"}},
   repo_type : {"pipeline", "modules"},
   valid : {TRUE, FALSE},
   s1ver : {"old", "latest"},
   patch : {"none", "applies", "conflicts", "lost"}]

B2N(b) == IF b THEN 1 ELSE 0

\* How many options of the run are not at their default.
Deviations(inv, mode, o) ==
  B2N(inv.arg = NONE /\ ~inv.update_all) + B2N(inv.arg # NONE /\ inv.update_all)
  + B2N(mode.show_diff = "None" /\ ~mode.save_diff_fn)
  + B2N(mode.show_diff = "True" /\ mode.save_diff_fn)
  + B2N(o.force) + B2N(o.prompt) + B2N(o.sha # NONE) + B2N(o.cfg # NoConfig)
  + B2N(o.avail # InstalledNames) + B2N(o.unfetchable # {})
  + B2N(o.repo_type # "pipeline") + B2N(~o.valid)
  + B2N(o.s1ver # "old") + B2N(o.patch # "none")

Scenarios ==
  {sc \in [inv : Invocations, mode : Modes, o : Options] :
     Deviations(sc.inv, sc.mode, sc.o) <= MaxOptions}

\* Nothing has happened yet.
\* No temporary directory: none for the files of a component (line 151),
\* none for the files a patch is tried on (line 683).
NoTmpDirs == [install |-> 0, patch |-> 0]

NoHistory ==
  [calls |-> <<>>, declined |-> {}, stage_failures |-> {}, patch_failures |-> {},
   cascaded |-> {}, staged |-> <<>>, run |-> 1, branch_question |-> "none",
   start |-> [json |-> <<>>, fs |-> <<>>],
   args |-> [update_all |-> FALSE, show_diff |-> "None", save_diff_fn |-> FALSE],
   first |-> [update_all |-> FALSE, silent |-> FALSE, plan |-> <<>>, dumps |-> 0,
              fs |-> <<>>, calls |-> 0]]

Init ==
  \E sc \in Scenarios, users \in {{}, {"m1"}, {"m1", "m2"}} :
    LET inv == sc.inv
        mode == sc.mode
        o == sc.o
        s1ver == o.s1ver
        patch == o.patch
    IN
    /\ component_type = inv.type
    /\ component = NONE
    /\ update_all = inv.update_all
    /\ force = o.force
    /\ prompt = o.prompt
    /\ sha = o.sha
    /\ show_diff = mode.show_diff
    /\ save_diff_fn = mode.save_diff_fn
    /\ update_config = o.cfg
    /\ modules_json = RunJson(users, s1ver, patch # "none")
    /\ disk_json = modules_json
    /\ n_dumps = 0
    /\ pipeline = PipelineOf(modules_json, patch = "lost")
    /\ diff_file = [exists |-> FALSE, items |-> <<>>]
    /\ log = <<>>
    /\ registry = [avail |-> o.avail, unfetchable |-> o.unfetchable,
                   patch_applies |-> patch # "conflicts", reachable |-> Sources]
    /\ environment = [repo_type |-> o.repo_type, valid |-> o.valid, branch |-> NONE]
    /\ stack = <<NewFrame(inv.arg, inv.type)>>
    /\ status = "running"
    /\ result = TRUE
    /\ error = NONE
    /\ history = [NoHistory EXCEPT !.args = [update_all |-> inv.update_all,
                                              show_diff |-> mode.show_diff,
                                              save_diff_fn |-> mode.save_diff_fn],
                                    !.start = [json |-> disk_json, fs |-> pipeline]]
    /\ tmp_dirs = NoTmpDirs

(***************************************************************************)
(* update(), lines 70-265, step by step.                                   *)
(***************************************************************************)
\* self.modules_repo.remote_url: the remote the command was started for.
SelfRepo == "r1"

\* The orders in which the set of line 408 can yield the directories.
DirPerms == {<<"nf-core", "other", "d2">>, <<"other", "nf-core", "d2">>}

Disk == <<disk_json, n_dumps, pipeline, diff_file>>

Ctl == <<status, result, error>>

\* _parameter_checks as it would be without the check of lines 64-65.
parameter_checks_no_prompt(comp) ==
  \/ save_diff_fn /\ show_diff = "True"
  \/ update_all /\ comp # NONE
  \/ environment.repo_type = "modules"
  \/ ~environment.valid

\* _parameter_checks, lines 48-68: TRUE when it raises UserWarning.
parameter_checks(comp) ==
  \/ save_diff_fn /\ show_diff = "True"
  \/ update_all /\ comp # NONE
  \/ environment.repo_type = "modules"
  \/ prompt /\ sha # NONE
  \/ ~environment.valid

\* `return value` of update(): the outermost call ends the run; a nested
\* call goes back into update_linked_components (lines 767, 771), which
\* resets the component type and goes on with its lists.
Return(value) ==
  IF Len(stack) = 1
  THEN /\ status' = "returned"
       /\ result' = value
       /\ stack' = SetTop([Top EXCEPT !.pc = "done"])
       /\ UNCHANGED <<error, component_type>>
  ELSE LET caller == stack[Len(stack) - 1]
           back == IF caller.subworkflows_to_update # <<>>
                   THEN [caller EXCEPT !.subworkflows_to_update = Tail(@)]
                   ELSE [caller EXCEPT !.modules_to_update = Tail(@)]
       IN  /\ stack' = Append(SubSeq(stack, 1, Len(stack) - 2), back)
           /\ component_type' = caller.original_component_type
           /\ UNCHANGED Ctl

\* Lines 82-93.
UpdateBegin ==
  /\ Running("begin")
  /\ component' = Top.arg
  /\ IF parameter_checks(Top.arg)
     THEN Raise("UserWarning")
     ELSE /\ stack' = SetTop([Top EXCEPT !.pc = "plan"])
          /\ UNCHANGED Ctl
  /\ UNCHANGED <<component_type, update_all, show_diff, save_diff_fn, modules_json,
                 log, history>>
  /\ UNCHANGED Disk
  /\ UNCHANGED Inputs
  /\ UNCHANGED tmp_dirs

\* Lines 95-109: the question "all or a named one", then the --sha that
\* does not exist on the branch.
UpdateShaMissing ==
  /\ Running("plan")
  /\ sha # NONE /\ sha \notin Shas
  /\ \E all \in (IF ~update_all /\ Top.arg = NONE THEN BOOLEAN ELSE {update_all}) :
       update_all' = all
  /\ Return(FALSE)
  /\ UNCHANGED <<component, show_diff, save_diff_fn, modules_json, log, history>>
  /\ UNCHANGED Disk
  /\ UNCHANGED Inputs
  /\ UNCHANGED tmp_dirs

\* self.modules_repo.branch: the branch of --branch, or the default branch
\* of the remote.
ModulesRepoBranch ==
  IF environment.branch = NONE THEN "master" ELSE environment.branch

\* Line 113: the branch get_all_components_info is called with; the call
\* has no argument, so the parameter takes its default.
BranchArgument == NONE

\* Lines 338-351: the component is updated from self.modules_repo, which
\* is moved to the branch of the installation only when the user says so.
SwitchBranch(plan, switch) ==
  IF plan = <<>> THEN plan
  ELSE <<[plan[1] EXCEPT !.branch = IF switch THEN @ ELSE ModulesRepoBranch]>>

\* Lines 95-114: the plan, from get_all_components_info or
\* get_single_component_info (whose prompt of line 292 picks a choice).
UpdatePlan ==
  /\ Running("plan")
  /\ ~(sha # NONE /\ sha \notin Shas)
  /\ \E all \in (IF ~update_all /\ Top.arg = NONE THEN BOOLEAN ELSE {update_all}) :
     \E perm \in (IF all THEN DirPerms ELSE {<<"nf-core", "other", "d2">>}) :
     \E pick \in (IF all \/ Top.arg # NONE \/ Choices(modules_json, component_type, SelfRepo) = {}
                  THEN {Top.arg}
                  ELSE Choices(modules_json, component_type, SelfRepo)) :
     \E use_branch \in (IF all /\ BranchArgument # NONE THEN BOOLEAN ELSE {FALSE}) :
     \E switch \in BOOLEAN :
       LET one == get_single_component_info(modules_json, update_config, component_type,
                                            SelfRepo, pick, sha, registry.avail)
           r == IF all
                THEN get_all_components_info(modules_json, update_config, component_type, sha,
                                             IF use_branch THEN BranchArgument ELSE NONE,
                                             perm, registry)
                ELSE [one EXCEPT !.plan = SwitchBranch(@, switch)]
       IN  /\ switch => ~all /\ one.outcome = "ok" /\ one.plan[1].branch # ModulesRepoBranch
           /\ update_all' = all
           /\ log' = log \o r.logs
           /\ history' = [history EXCEPT !.branch_question =
                            IF ~all \/ BranchArgument = NONE THEN @
                            ELSE IF use_branch THEN "confirmed" ELSE "declined"]
           /\ IF r.outcome = "ok"
              THEN /\ stack' = SetTop([Top EXCEPT !.plan = r.plan, !.pc = "mode"])
                   /\ UNCHANGED Ctl
              ELSE Raise(r.outcome)
  /\ UNCHANGED <<component_type, component, show_diff, save_diff_fn, modules_json>>
  /\ UNCHANGED Disk
  /\ UNCHANGED Inputs
  /\ UNCHANGED tmp_dirs

\* Lines 116-135: the snapshot of modules.json, the question about diffs,
\* setup_diff_file (which leaves an empty file).
UpdateMode ==
  /\ Running("mode")
  /\ \E diff_type \in (IF ~save_diff_fn /\ show_diff = "None" THEN 0..2 ELSE {3}) :
       /\ show_diff' = IF diff_type = 3 THEN show_diff
                       ELSE IF diff_type = 1 THEN "True" ELSE "False"
       /\ save_diff_fn' = IF diff_type = 3 THEN save_diff_fn ELSE diff_type = 2
  /\ diff_file' = IF save_diff_fn' THEN [exists |-> TRUE, items |-> <<>>] ELSE diff_file
  /\ stack' = SetTop([Top EXCEPT !.old_modules_json = modules_json, !.pc = "loop"])
  /\ UNCHANGED <<component_type, component, update_all, modules_json, disk_json, n_dumps,
                 pipeline, log, history>>
  /\ UNCHANGED Ctl
  /\ UNCHANGED Inputs
  /\ UNCHANGED tmp_dirs

\* Lines 157-164: the version to install.
VersionChoices ==
  IF Entry.sha # NONE THEN {Entry.sha}
  ELSE IF prompt THEN Shas
  ELSE {"latest"}

\* Lines 146-148.
CurrentVersion ==
  get_component_version(modules_json, component_type, Entry.component, Entry.repo,
                        RepoPath(Entry.repo))

\* Line 172 as it would be if an installed version were never up to date.
UpToDateNever(version) == FALSE

\* Line 172: the entry is skipped.
UpToDate(version) == CurrentVersion # NONE /\ ~force /\ CurrentVersion = version

\* Where an entry goes once its files are staged (and patched).
AfterStaging(f) == IF f.dry_run THEN "diff" ELSE "install"

\* Lines 141-172, the entry is already at the wanted version.
EntrySkip ==
  /\ Running("loop")
  /\ Top.i <= Len(Top.plan)
  /\ \E version \in VersionChoices :
       /\ UpToDate(version)
       /\ stack' = SetTop([Top EXCEPT !.i = @ + 1, !.version = version,
                                      !.current_version = CurrentVersion])
  /\ UNCHANGED <<component_type, component, update_all, show_diff, save_diff_fn,
                 modules_json, log, history>>
  /\ UNCHANGED Disk
  /\ UNCHANGED Ctl
  /\ UNCHANGED Inputs
  /\ tmp_dirs' = [tmp_dirs EXCEPT !.install = @ + 1]

\* Lines 141-172, the entry is to be installed.
EntryStart ==
  /\ Running("loop")
  /\ Top.i <= Len(Top.plan)
  /\ \E version \in VersionChoices :
       /\ ~UpToDate(version)
       /\ stack' = SetTop([Top EXCEPT
                             !.pc = "stage",
                             !.version = version,
                             !.current_version = CurrentVersion,
                             !.dry_run = (show_diff = "True" \/ save_diff_fn),
                             !.staged = NoContent,
                             !.before = [fs |-> pipeline, dumps |-> n_dumps]])
  /\ UNCHANGED <<component_type, component, update_all, show_diff, save_diff_fn,
                 modules_json, log, history>>
  /\ UNCHANGED Disk
  /\ UNCHANGED Ctl
  /\ UNCHANGED Inputs
  /\ tmp_dirs' = [tmp_dirs EXCEPT !.install = @ + 1]

\* Lines 175-177: install_component_files fails.
StageFail ==
  /\ Running("stage")
  /\ Entry.component \in registry.unfetchable
  /\ stack' = SetTop([Top EXCEPT !.exit_value = FALSE, !.i = @ + 1, !.pc = "loop"])
  /\ history' = [history EXCEPT !.stage_failures = @ \cup {Entry.component}]
  /\ UNCHANGED <<component_type, component, update_all, show_diff, save_diff_fn,
                 modules_json, log>>
  /\ UNCHANGED Disk
  /\ UNCHANGED Ctl
  /\ UNCHANGED Inputs
  /\ UNCHANGED tmp_dirs

\* Line 175: the files of the version are in the temporary directory.
Stage ==
  /\ Running("stage")
  /\ Entry.component \notin registry.unfetchable
  /\ LET f == [Top EXCEPT !.staged = Content(Top.version, FALSE, NONE)]
     IN  stack' = SetTop([f EXCEPT !.pc = IF Entry.patch THEN "patch" ELSE AfterStaging(f)])
  /\ history' = [history EXCEPT !.staged = Append(@, Entry.component)]
  /\ UNCHANGED <<component_type, component, update_all, show_diff, save_diff_fn,
                 modules_json, log>>
  /\ UNCHANGED Disk
  /\ UNCHANGED Ctl
  /\ UNCHANGED Inputs
  /\ UNCHANGED tmp_dirs

\* try_apply_patch, line 680: check_patch_paths opens the patch file, which
\* is not in the component directory any more.
PatchMissing ==
  /\ Running("patch")
  /\ DirAt(pipeline, EntryPath).pfile = NONE
  /\ Raise("FileNotFoundError")
  /\ UNCHANGED <<component_type, component, update_all, show_diff, save_diff_fn,
                 modules_json, log, history>>
  /\ UNCHANGED Disk
  /\ UNCHANGED Inputs
  /\ UNCHANGED tmp_dirs

\* As if the failed patch left patched files behind.
FailedPatchStagedPartial(staged, patch_base) ==
  [staged EXCEPT !.cust = TRUE, !.pfile = patch_base]

\* The staged files once the patch failed: untouched, plus the patch file.
FailedPatchStaged(staged, patch_base) == [staged EXCEPT !.pfile = patch_base]

\* try_apply_patch, lines 687-695: the patch does not apply; the patch file
\* is moved from the component directory to the temporary directory.
PatchFail ==
  /\ Running("patch")
  /\ LET base == DirAt(pipeline, EntryPath).pfile
     IN  /\ base # NONE
         /\ ~PatchApplies(registry, base, Top.version)
         /\ pipeline' = [pipeline EXCEPT ![EntryPath].pfile = NONE]
         /\ LET f == [Top EXCEPT !.staged = FailedPatchStaged(Top.staged, base),
                                 !.patch_successful = FALSE,
                                 !.all_patches_successful = FALSE]
            IN  stack' = SetTop([f EXCEPT !.pc = AfterStaging(f)])
  /\ history' = [history EXCEPT !.patch_failures = @ \cup {Entry.component}]
  /\ UNCHANGED <<component_type, component, update_all, show_diff, save_diff_fn,
                 modules_json, disk_json, n_dumps, diff_file, log>>
  /\ UNCHANGED Ctl
  /\ UNCHANGED Inputs
  /\ tmp_dirs' = [tmp_dirs EXCEPT !.patch = @ + 1]

\* Lines 706-716 as they would be if the patch file of the component
\* directory were kept as it is.
write_diff_file_old(from_dir, to_dir) == DirAt(pipeline, EntryPath).pfile

\* ModulesDiffer.write_diff_file as called in lines 706-716: the patch is
\* the diff from `from_dir` to `to_dir`, two copies of one version; it is
\* known by the version of the files it starts from.
write_diff_file(from_dir, to_dir) == from_dir.ver

\* try_apply_patch, lines 697-728: the patched files and the patch made
\* anew against the staged version replace the staged files; the patch
\* entry is written to modules.json (write_file=True).
PatchOk ==
  /\ Running("patch")
  /\ LET base == DirAt(pipeline, EntryPath).pfile
     IN  /\ base # NONE
         /\ PatchApplies(registry, base, Top.version)
  /\ modules_json' = mj_add_patch_entry(modules_json, Entry.component, SelfRepo,
                                        RepoPath(Entry.repo))
  /\ disk_json' = modules_json'
  /\ n_dumps' = n_dumps + 1
  /\ LET patched == [Top.staged EXCEPT !.cust = TRUE]
         f == [Top EXCEPT !.staged = [patched EXCEPT
                                         !.pfile = write_diff_file(Top.staged, patched)],
                          !.patch_successful = TRUE]
     IN  stack' = SetTop([f EXCEPT !.pc = AfterStaging(f)])
  /\ UNCHANGED <<component_type, component, update_all, show_diff, save_diff_fn,
                 pipeline, diff_file, log, history>>
  /\ UNCHANGED Ctl
  /\ UNCHANGED Inputs
  /\ tmp_dirs' = [tmp_dirs EXCEPT !.patch = @ + 1]

\* Lines 198-212: the diff of the component is appended to the diff file.
DiffToFile ==
  /\ Running("diff")
  /\ save_diff_fn
  /\ diff_file' = [diff_file EXCEPT !.items =
                     Append(@, [kind |-> "component", name |-> Entry.component,
                                from |-> Top.current_version, to |-> Top.version])]
  /\ stack' = SetTop([Top EXCEPT !.pc = "record"])
  /\ UNCHANGED <<component_type, component, update_all, show_diff, save_diff_fn,
                 modules_json, disk_json, n_dumps, pipeline, log, history>>
  /\ UNCHANGED Ctl
  /\ UNCHANGED Inputs
  /\ UNCHANGED tmp_dirs

\* Lines 214-231: the diff is printed and the user is asked.
Preview ==
  /\ Running("diff")
  /\ ~save_diff_fn
  /\ show_diff = "True"
  /\ \E answer \in BOOLEAN :
       /\ stack' = SetTop([Top EXCEPT !.dry_run = ~answer,
                                      !.pc = IF answer THEN "install" ELSE "record"])
       /\ history' =
            IF answer THEN history
            ELSE [history EXCEPT !.declined =
                    @ \cup {[key |-> Key(Entry.repo, component_type, RepoPath(Entry.repo),
                                         Entry.component),
                             version |-> Top.version,
                             dir |-> DirAt(pipeline, EntryPath),
                             on_disk |-> get_component_version(disk_json, component_type,
                                            Entry.component, Entry.repo, RepoPath(Entry.repo))]}]
  /\ UNCHANGED <<component_type, component, update_all, show_diff, save_diff_fn,
                 modules_json, log>>
  /\ UNCHANGED Disk
  /\ UNCHANGED Ctl
  /\ UNCHANGED Inputs
  /\ UNCHANGED tmp_dirs

\* move_files_from_tmp_dir as it would be without clear_component_dir: the
\* user's changes to the old files stay.
move_files_over_old(fs, path, staged) ==
  (path :> [staged EXCEPT !.cust = @ \/ DirAt(fs, path).cust]) @@ fs

\* move_files_from_tmp_dir, lines 632-655: the component directory is
\* removed and made anew from the files of the temporary directory.
move_files_from_tmp_dir(fs, path, staged) == (path :> staged) @@ fs

Present(mj) == {k \in AllKeys : mj[k].present}

\* The names of `set` in the order of `order`.
RECURSIVE InOrder(_, _)
InOrder(order, set) ==
  IF order = <<>> THEN <<>>
  ELSE (IF Head(order) \in set THEN <<Head(order)>> ELSE <<>>) \o InOrder(Tail(order), set)

NameOrder == <<"m1", "m2", "m4", "s1", "m3">>

KeyNames(keys) == [i \in 1..Len(keys) |-> keys[i].name]

\* get_modules_subworkflows_to_update, lines 730-757, on the modules.json
\* `mj`: <<modules_to_update, subworkflows_to_update>>.
get_modules_subworkflows_to_update(mj, type, comp, install_dir) ==
  LET installed_by == mj[Key(SelfRepo, type, install_dir, comp)].installed_by
      uses(t) == SelectSeq(KeyOrder, LAMBDA k : /\ mj[k].present /\ k.type = t
                                                /\ comp \in mj[k].installed_by)
  IN  IF type = MODULES
      THEN <<<<>>, InOrder(NameOrder, installed_by \ {type})>>
      ELSE <<KeyNames(uses(MODULES)), KeyNames(uses(SUBWORKFLOWS))>>

\* Lines 233-239 and 763: the files are moved in place, the version is
\* written to modules.json, the linked components are looked up (KeyError
\* when the component is not recorded under the remote of the command).
Install ==
  /\ Running("install")
  /\ pipeline' = move_files_from_tmp_dir(pipeline, EntryPath, Top.staged)
  /\ modules_json' = mj_update(modules_json, component_type, Entry.repo, Entry.component,
                               Top.version)
  /\ disk_json' = modules_json'
  /\ n_dumps' = n_dumps + 1
  /\ IF ~Recorded(modules_json', component_type, Entry.component, SelfRepo,
                   RepoPath(Entry.repo))
     THEN Raise("KeyError")
     ELSE LET linked == get_modules_subworkflows_to_update(
                          modules_json', component_type, Entry.component, RepoPath(Entry.repo))
          IN  /\ stack' = SetTop([Top EXCEPT !.staged = NoContent,
                                             !.modules_to_update = linked[1],
                                             !.subworkflows_to_update = linked[2],
                                             !.pc = "cascade"])
              /\ UNCHANGED Ctl
  /\ history' =
       IF component_type = MODULES
          /\ Recorded(modules_json', component_type, Entry.component, SelfRepo,
                      RepoPath(Entry.repo))
       THEN [history EXCEPT !.cascaded =
               @ \cup (modules_json'[Key(SelfRepo, component_type, RepoPath(Entry.repo),
                                         Entry.component)].installed_by \ {MODULES})]
       ELSE history
  /\ UNCHANGED <<component_type, component, update_all, show_diff, save_diff_fn,
                 diff_file, log>>
  /\ UNCHANGED Inputs
  /\ UNCHANGED tmp_dirs

\* Lines 240-244: a dry run; the version is recorded in memory only
\* (write_file=False).
RecordOnly ==
  /\ Running("record")
  /\ modules_json' = mj_update(modules_json, component_type, Entry.repo, Entry.component,
                               Top.version)
  /\ stack' = SetTop([Top EXCEPT !.i = @ + 1, !.pc = "loop"])
  /\ UNCHANGED <<component_type, component, update_all, show_diff, save_diff_fn,
                 log, history>>
  /\ UNCHANGED Disk
  /\ UNCHANGED Ctl
  /\ UNCHANGED Inputs
  /\ UNCHANGED tmp_dirs

\* update_linked_components, lines 764-766 and 768-770: the next linked
\* component is updated by a nested call of update(), the subworkflows first.
CascadeCall ==
  /\ Running("cascade")
  /\ Top.subworkflows_to_update # <<>> \/ Top.modules_to_update # <<>>
  /\ Len(stack) < MaxDepth
  /\ LET subs == Top.subworkflows_to_update # <<>>
         name == IF subs THEN Head(Top.subworkflows_to_update) ELSE Head(Top.modules_to_update)
         type == IF subs THEN SUBWORKFLOWS ELSE MODULES
     IN  /\ stack' = Append(SetTop([Top EXCEPT !.original_component_type = component_type]),
                            NewFrame(name, type))
         /\ component_type' = type
         /\ history' = [history EXCEPT !.calls = Append(@, [type |-> type, name |-> name])]
  /\ UNCHANGED <<component, update_all, show_diff, save_diff_fn, modules_json, log>>
  /\ UNCHANGED Disk
  /\ UNCHANGED Ctl
  /\ UNCHANGED Inputs
  /\ UNCHANGED tmp_dirs

\* The cascade is deeper than the model follows: the run is left there.
CascadeCut ==
  /\ Running("cascade")
  /\ Top.subworkflows_to_update # <<>> \/ Top.modules_to_update # <<>>
  /\ Len(stack) >= MaxDepth
  /\ status' = "cut"
  /\ UNCHANGED <<component_type, component, update_all, show_diff, save_diff_fn,
                 modules_json, log, history, stack, result, error>>
  /\ UNCHANGED Disk
  /\ UNCHANGED Inputs
  /\ UNCHANGED tmp_dirs

\* Line 239 is done: the loop goes to its next entry.
CascadeDone ==
  /\ Running("cascade")
  /\ Top.subworkflows_to_update = <<>> /\ Top.modules_to_update = <<>>
  /\ stack' = SetTop([Top EXCEPT !.i = @ + 1, !.pc = "loop"])
  /\ UNCHANGED <<component_type, component, update_all, show_diff, save_diff_fn,
                 modules_json, log, history>>
  /\ UNCHANGED Disk
  /\ UNCHANGED Ctl
  /\ UNCHANGED Inputs
  /\ UNCHANGED tmp_dirs

\* Lines 248-253 as they would be if the diff were taken from the state
\* after the loop.
append_modules_json_diff_stale(items, old, new) ==
  Append(items, [kind |-> "modules_json", name |-> NONE, from |-> new, to |-> new])

\* ModulesDiffer.append_modules_json_diff, lines 248-253: the diff from
\* `old` to `new` is appended to the diff file.
append_modules_json_diff(items, old, new) ==
  Append(items, [kind |-> "modules_json", name |-> NONE, from |-> old, to |-> new])

\* Lines 246-265: the diff of modules.json closes the diff file; the call
\* returns exit_value.
Finish ==
  /\ Running("loop")
  /\ Top.i > Len(Top.plan)
  /\ diff_file' = IF save_diff_fn
                  THEN [diff_file EXCEPT !.items =
                          append_modules_json_diff(@, Top.old_modules_json, modules_json)]
                  ELSE diff_file
  /\ Return(Top.exit_value)
  /\ UNCHANGED <<component, update_all, show_diff, save_diff_fn, modules_json,
                 disk_json, n_dumps, pipeline, log, history>>
  /\ UNCHANGED Inputs
  /\ UNCHANGED tmp_dirs

Next ==
  \/ UpdateBegin
  \/ UpdateShaMissing
  \/ UpdatePlan
  \/ UpdateMode
  \/ EntrySkip
  \/ EntryStart
  \/ StageFail
  \/ Stage
  \/ PatchMissing
  \/ PatchFail
  \/ PatchOk
  \/ DiffToFile
  \/ Preview
  \/ Install
  \/ RecordOnly
  \/ CascadeCall
  \/ CascadeCut
  \/ CascadeDone
  \/ Finish

Spec == Init /\ [][Next]_vars

(***************************************************************************)
(* The properties of the update loop, under Spec.                          *)
(***************************************************************************)
\* The entry the top frame is working on is in a dry run and done.
DryRunDone == Running("record")

\* C1: in a dry run (diff to file, or preview declined) the processing of a
\* plan entry creates, removes, moves or modifies no file of any installed
\* component directory: when the entry is done the directories are as they
\* were when the entry was started.
C1_DryRunLeavesDirectories ==
  DryRunDone => pipeline = Top.before.fs

\* C2: in a dry run the processing of an entry writes nothing to modules.json
\* on disk, and its last step advances the version of the entry in the
\* in-memory modules.json to the target version.
C2_DryRunRecordsInMemoryOnly ==
  [][DryRunDone =>
       /\ n_dumps' = Top.before.dumps
       /\ get_component_version(modules_json', component_type, Entry.component,
                                Entry.repo, RepoPath(Entry.repo)) = Top.version]_vars

\* C3: a component whose preview was declined keeps its directory for the
\* rest of the run, and the version that was declined never reaches
\* modules.json on disk.
C3_DeclinedStaysOffDisk ==
  \A d \in history.declined :
    /\ DirAt(pipeline, Path(d.key.type, d.key.dir, d.key.name)) = d.dir
    /\ d.version # d.on_disk =>
         get_component_version(disk_json, d.key.type, d.key.name, d.key.repo, d.key.dir)
           # d.version

\* C4: during a nested update started by update_linked_components the
\* component type is the type of the linked component, and once the nested
\* call has ended, by a return or by an exception, it is the type the
\* caller had.
C4_ComponentTypeRestored ==
  /\ status = "running" => component_type = Top.ctype
  /\ status = "raised" /\ Len(stack) > 1 =>
       component_type = stack[Len(stack) - 1].ctype

\* How often update() was called for the subworkflow `name` by a cascade.
NestedCalls(name) ==
  Cardinality({i \in 1..Len(history.calls) :
                 history.calls[i] = [type |-> SUBWORKFLOWS, name |-> name]})

\* C5: a subworkflow that uses a module whose update was applied is updated
\* by exactly one nested call: never by more than one, and by one when the
\* run returns.
C5_OneNestedUpdatePerSubworkflow ==
  \A name \in history.cascaded :
    /\ NestedCalls(name) <= 1
    /\ status = "returned" => NestedCalls(name) = 1

\* C6: a staging failure of any entry, nested ones included, makes update
\* return false.
C6_StagingFailureReturnsFalse ==
  status = "returned" /\ history.stage_failures # {} => result = FALSE

\* The mode without diffs.
Silent == show_diff = "False" /\ ~save_diff_fn

\* The patch of the entry of the top frame is about to fail.
PatchFails ==
  /\ Running("patch")
  /\ DirAt(pipeline, EntryPath).pfile # NONE
  /\ ~PatchApplies(registry, DirAt(pipeline, EntryPath).pfile, Top.version)

\* The entry of the top frame is about to be installed after its patch failed.
InstallsAfterPatchFailure ==
  Running("install") /\ Entry.patch /\ ~Top.patch_successful

ComponentPin(cfg, repo, dir, comp) ==
  IF /\ cfg[repo].kind = "dict"
     /\ cfg[repo].dirs[dir].kind = "dict"
     /\ cfg[repo].dirs[dir].comps[comp].kind = "str"
  THEN cfg[repo].dirs[dir].comps[comp].sha
  ELSE NONE

\* The frame was planned for one named component whose configured pin
\* differs from the sha of the command line.
PinnedAgainstCli(f) ==
  /\ ~update_all
  /\ f.plan # <<>>
  /\ sha # NONE
  /\ ComponentPin(update_config, f.plan[1].repo, RepoPath(f.plan[1].repo),
                  f.plan[1].component) \notin {NONE, sha}

\* C9: on the single-component path, when the configuration pins the
\* component to a sha and the command line gives another one, the plan
\* entry targets the configured sha, a warning is logged, and the
\* configured sha is the version that is staged.
C9_ConfiguredPinWins ==
  \A d \in 1..Len(stack) :
    LET f == stack[d]
        pin == ComponentPin(update_config, f.plan[1].repo, RepoPath(f.plan[1].repo),
                            f.plan[1].component)
    IN  PinnedAgainstCli(f) =>
          /\ f.plan[1].sha = pin
          /\ \E j \in 1..Len(log) : log[j].kind = "override_warning"
          /\ f.pc \in {"stage", "patch", "diff", "install", "record", "cascade"} =>
               f.version = pin

\* The pinned version is staged although the command line asked for another.
C9_Witness ==
  /\ Running("install")
  /\ PinnedAgainstCli(Top)
  /\ Top.staged = Content("latest", FALSE, NONE)
  /\ sha = "old"


(***************************************************************************)
(* The planning alone, over the shapes of the `update:` block.             *)
(***************************************************************************)
\* The values a component can have in the mapping of its directory.
CompShapes ==
  {CompEntry(k, NONE) : k \in {"absent", "true", "false", "bad"}}
    \cup {CompEntry("str", "latest")}

\* The values of the directory "nf-core" of r1.
NfCoreShapes ==
  {DirEntry(k, NONE) : k \in {"absent", "true", "false", "bad"}}
    \cup {DirEntry("str", "latest")}
    \cup {DirDict([NoComps EXCEPT !["m1"] = c1, !["m2"] = c2]) :
            c1 \in CompShapes, c2 \in {CompEntry("absent", NONE), CompEntry("str", "old")}}

\* The values of the directory "other" of r1.
OtherShapes ==
  {DirEntry(k, NONE) : k \in {"absent", "true", "false"}}
    \cup {DirEntry("str", "old")}
    \cup {DirDict([NoComps EXCEPT !["m4"] = CompEntry("str", "latest")])}

\* The values of a repo that are not a mapping.
FlatShapes ==
  {RepoEntry(k, NONE) : k \in {"absent", "true", "false", "bad"}}
    \cup {RepoEntry("str", "latest")}

PlanConfigs ==
  {[r \in Repos |-> IF r = "r1" THEN e1 ELSE e2] :
     e1 \in FlatShapes
              \cup {RepoDict([NoDirs EXCEPT !["nf-core"] = d1, !["other"] = d2]) :
                      d1 \in NfCoreShapes, d2 \in OtherShapes},
     e2 \in (FlatShapes \ {RepoEntry("true", NONE)}) \cup {RepoEntry("str", "ghost")}}

\* modules.json with or without the module m4 of the directory "other",
\* with m2 installed from the branch `m2branch`.
PlanJson(with_m4, m2branch) ==
  [RunJson({}, "old", FALSE) EXCEPT
     ![KM4] = IF with_m4 THEN JsonEntry(TRUE, "old", FALSE, {MODULES}) ELSE @,
     ![KM2].branch = m2branch]

\* The remote as a plan meets it: the catalog, the pairs that can be set
\* up, and the branch m2 was installed from.
PlanRemotes ==
  {[avail |-> Names, reachable |-> Sources, m2branch |-> "master"],
   [avail |-> Names \ {"m2"}, reachable |-> Sources, m2branch |-> "master"],
   [avail |-> Names, reachable |-> Sources \ {<<"r2", "master">>}, m2branch |-> "master"],
   [avail |-> Names, reachable |-> Sources, m2branch |-> "dev"],
   [avail |-> Names, reachable |-> Sources \ {<<"r1", "master">>}, m2branch |-> "dev"]}

PlanInit ==
  \E arg \in {NONE, "m1", "m2", "m4"}, cli \in {NONE, "old"}, cfg \in PlanConfigs,
     with_m4 \in BOOLEAN, remote \in PlanRemotes, branch \in {NONE, "dev"} :
    /\ component_type = MODULES
    /\ component = NONE
    /\ update_all = (arg = NONE)
    /\ force = FALSE
    /\ prompt = FALSE
    /\ sha = cli
    /\ show_diff = "False"
    /\ save_diff_fn = FALSE
    /\ update_config = cfg
    /\ modules_json = PlanJson(with_m4, remote.m2branch)
    /\ disk_json = modules_json
    /\ n_dumps = 0
    /\ pipeline = PipelineOf(modules_json, FALSE)
    /\ diff_file = [exists |-> FALSE, items |-> <<>>]
    /\ log = <<>>
    /\ registry = [avail |-> remote.avail, unfetchable |-> {}, patch_applies |-> TRUE,
                   reachable |-> remote.reachable]
    /\ environment = [repo_type |-> "pipeline", valid |-> TRUE, branch |-> branch]
    /\ stack = <<NewFrame(arg, MODULES)>>
    /\ status = "running"
    /\ result = TRUE
    /\ error = NONE
    /\ history = NoHistory
    /\ tmp_dirs = NoTmpDirs

PlanNext ==
  \/ UpdateBegin
  \/ UpdatePlan

PlanSpec == PlanInit /\ [][PlanNext]_vars

\* The plan of the outermost call is made.
Planned == Running("mode")

\* The directory the component `name` is installed in.
InstallDir(name) == (CHOOSE k \in AllKeys : k.name = name).dir

\* The first sha that is defined in the order component, directory, repo,
\* command line; NONE stands for the latest commit.
Precedence(cfg, repo, dir, comp, cli) ==
  IF ComponentPin(cfg, repo, dir, comp) # NONE THEN ComponentPin(cfg, repo, dir, comp)
  ELSE IF cfg[repo].kind = "dict" /\ cfg[repo].dirs[dir].kind = "str"
  THEN cfg[repo].dirs[dir].sha
  ELSE IF cfg[repo].kind = "str" THEN cfg[repo].sha
  ELSE cli

\* C8: whatever the shape of the configuration and the sha of the command
\* line, on the single-component path and on the bulk path, the target of a
\* plan entry is the first that is defined of: the pin of the component, the
\* pin of its directory, the pin of its repo, the sha of the command line,
\* the latest commit.
C8_TargetFollowsPrecedence ==
  Planned =>
    \A i \in 1..Len(Top.plan) :
      Top.plan[i].sha =
        Precedence(update_config, Top.plan[i].repo, InstallDir(Top.plan[i].component),
                   Top.plan[i].component, sha)

\* The summary lines that report skipped repos.
SkipRepoLines == {j \in 1..Len(log) : log[j].kind = "skip_repos"}

\* C10: in a bulk update a repo of modules.json whose entry is `false` has
\* no entry in the plan, whatever the entries of the other repos, and the
\* skipped repos are reported in exactly one log line, which names the repo.
C10_SkippedRepoNotPlanned ==
  Planned /\ update_all =>
    \A r \in Repos :
      update_config[r].kind = "false" /\ Len(InstalledOf(modules_json, component_type, r)) > 0 =>
        /\ \A i \in 1..Len(Top.plan) : Top.plan[i].repo # r
        /\ Cardinality(SkipRepoLines) = 1
        /\ \A j \in SkipRepoLines : \E n \in 1..Len(log[j].names) : log[j].names[n] = r

\* A bulk plan is made with r2 skipped next to a repo with a mapping.
C10_Witness ==
  /\ Planned /\ update_all
  /\ update_config["r2"].kind = "false"
  /\ update_config["r1"].kind = "dict"
  /\ Top.plan # <<>>
  /\ Cardinality(SkipRepoLines) = 1

(***************************************************************************)
(* The command run a second time.                                          *)
(***************************************************************************)
\* A new ComponentUpdate (lines 22-46) with the arguments of the first one
\* calls update() with the same name, after the first call, without diffs,
\* returned true: modules.json is read from disk again; the registry has
\* not changed.
Rerun ==
  /\ status = "returned" /\ result = TRUE
  /\ show_diff = "False" /\ ~save_diff_fn
  /\ history.run = 1
  /\ component_type' = stack[1].ctype
  /\ component' = NONE
  /\ update_all' = history.args.update_all
  /\ show_diff' = history.args.show_diff
  /\ save_diff_fn' = history.args.save_diff_fn
  /\ modules_json' = disk_json
  /\ log' = <<>>
  /\ status' = "running"
  /\ stack' = <<[NewFrame(stack[1].arg, stack[1].ctype) EXCEPT
                   !.old_modules_json = disk_json,
                   !.before = [fs |-> pipeline, dumps |-> n_dumps]]>>
  /\ history' = [history EXCEPT
                   !.run = 2,
                   !.first = [update_all |-> update_all,
                              silent |-> (show_diff = "False" /\ ~save_diff_fn),
                              plan |-> stack[1].plan,
                              dumps |-> n_dumps,
                              fs |-> pipeline,
                              calls |-> Len(history.calls)]]
  /\ UNCHANGED <<result, error>>
  /\ UNCHANGED Disk
  /\ UNCHANGED Inputs
  /\ UNCHANGED tmp_dirs

RerunNext ==
  \/ Next
  \/ Rerun

RerunSpec == Init /\ [][RerunNext]_vars

\* The second run made the choices of the first one and asks for no version.
SecondRunAlike ==
  /\ history.run = 2
  /\ history.first.silent
  /\ ~force /\ ~prompt
  /\ stack[1].pc \notin {"begin", "plan"} =>
       update_all = history.first.update_all /\ stack[1].plan = history.first.plan
  /\ stack[1].pc \notin {"begin", "plan", "mode"} => show_diff = "False" /\ ~save_diff_fn

\* C11: a second run with the same arguments and answers, without --force,
\* after a silent run that returned true, with the registry unchanged:
\* every entry is skipped, nothing is installed, modules.json is not
\* written, no linked component is updated, and the run returns true.
C11_SecondRunDoesNothing ==
  SecondRunAlike =>
    /\ pipeline = history.first.fs
    /\ n_dumps = history.first.dumps
    /\ disk_json = modules_json
    /\ Len(history.calls) = history.first.calls
    /\ Len(stack) = 1
    /\ Top.pc \in {"begin", "plan", "mode", "loop", "done"}
    /\ status # "raised"
    /\ status = "returned" => result = TRUE

\* The second run ended after the first one had installed a version and
\* updated a linked subworkflow.
C11_Witness ==
  /\ SecondRunAlike
  /\ status = "returned"
  /\ Len(stack[1].plan) > 0
  /\ history.first.dumps > 1
  /\ history.first.calls > 0

(***************************************************************************)
(* The diff file.                                                          *)
(***************************************************************************)
\* The names of the component diffs of the diff file, in order.
ComponentDiffs ==
  LET items == SelectSeq(diff_file.items, LAMBDA it : it.kind = "component")
  IN  [i \in 1..Len(items) |-> items[i].name]

\* The diffs of modules.json in the diff file.
StateDiffs == {i \in 1..Len(diff_file.items) : diff_file.items[i].kind = "modules_json"}

\* The run wrote its diffs to a file and has returned from the end of its
\* loop (not from the check of --sha of line 107, which is before the plan).
DiffFileRunEnded ==
  /\ status = "returned" /\ save_diff_fn /\ history.run = 1
  /\ ~(sha # NONE /\ sha \notin Shas)

\* C12: when a run that writes its diffs to a file returns, the file holds
\* one component diff for every entry that was staged, in the order of the
\* plan, then exactly one diff of modules.json, from the snapshot taken
\* before the loop to the state after the loop, as the last item.
C12_DiffFileComplete ==
  DiffFileRunEnded =>
    /\ diff_file.exists
    /\ ComponentDiffs = history.staged
    /\ \A i \in 1..Len(history.staged) :
         \E j \in 1..Len(stack[1].plan) :
           /\ stack[1].plan[j].component = history.staged[i]
           /\ i > 1 => \E h \in 1..(j - 1) : stack[1].plan[h].component = history.staged[i - 1]
    /\ StateDiffs = {Len(diff_file.items)}
    /\ diff_file.items[Len(diff_file.items)].from = stack[1].old_modules_json
    /\ diff_file.items[Len(diff_file.items)].to = modules_json
    /\ \A j \in 1..Len(stack[1].plan) :
         stack[1].plan[j].component \notin
           {history.staged[i] : i \in 1..Len(history.staged)} =>
             get_component_version(modules_json, component_type, stack[1].plan[j].component,
                                   stack[1].plan[j].repo, RepoPath(stack[1].plan[j].repo))
               = get_component_version(stack[1].old_modules_json, component_type,
                                       stack[1].plan[j].component, stack[1].plan[j].repo,
                                       RepoPath(stack[1].plan[j].repo))

\* A bulk run wrote the diffs of several components and the diff of a
\* modules.json that changed.
C12_Witness ==
  /\ DiffFileRunEnded
  /\ Len(ComponentDiffs) >= 2
  /\ stack[1].old_modules_json # modules_json

(***************************************************************************)
(* Errors.                                                                 *)
(***************************************************************************)
\* The command line of the outermost call asks for what cannot be done:
\* --preview with --save-diff, a name with --all, a clone of the registry,
\* --sha with --prompt, or a directory that is no pipeline.
BadCommand ==
  \/ history.args.save_diff_fn /\ history.args.show_diff = "True"
  \/ history.args.update_all /\ stack[1].arg # NONE
  \/ environment.repo_type = "modules"
  \/ prompt /\ sha # NONE
  \/ ~environment.valid

\* Nothing the run can change has changed since the outermost call began.
NothingDone ==
  /\ Len(stack) = 1
  /\ stack[1].pc = "begin" /\ stack[1].plan = <<>>
  /\ pipeline = stack[1].before.fs
  /\ n_dumps = stack[1].before.dumps
  /\ disk_json = modules_json
  /\ modules_json = stack[1].old_modules_json
  /\ ~diff_file.exists
  /\ history.staged = <<>>

\* C13: when the command line asks for one of the five things that cannot
\* be done, the outermost call raises UserWarning as its first step, before
\* there is a plan and before anything is staged, installed, recorded or
\* written to a diff file.
C13_BadCommandFailsFast ==
  [][BadCommand /\ history.run = 1 =>
       /\ status = "running"
       /\ NothingDone
       /\ status' = "raised" /\ error' = "UserWarning"
       /\ NothingDone']_vars

\* --sha and --prompt together have been refused.
C13_Witness ==
  /\ prompt /\ sha # NONE
  /\ status = "raised" /\ error = "UserWarning"
  /\ NothingDone

\* C14: a UserWarning (flags that exclude each other, an entry of the
\* configuration that is malformed or false, a directory that is no
\* pipeline), raised by the outermost call or by a nested one, leaves
\* update() before the run has replaced a component directory and before
\* it has recorded or written anything to modules.json.
C14_ConfigErrorBeforeMutation ==
  status = "raised" /\ error = "UserWarning" /\ history.run = 1 =>
    /\ n_dumps = 0
    /\ modules_json = stack[1].old_modules_json
    /\ disk_json = modules_json

\* The component the outermost call names is installed from the remote of
\* the command, in some directory.
NamedInstalled ==
  \E k \in AllKeys : /\ modules_json[k].present /\ k.repo = SelfRepo
                     /\ k.type = component_type /\ k.name = stack[1].arg

\* The planning of a call for one named component is over.
SinglePlanOver ==
  /\ ~update_all /\ stack[1].arg # NONE
  /\ Len(stack) = 1
  /\ stack[1].pc = "mode" \/ (stack[1].pc = "plan" /\ status = "raised")

\* C15: get_single_component_info raises LookupError, and nothing else, for
\* a component that is not installed from the remote of the command or that
\* the catalog does not have; a component that is installed, in whatever
\* directory, and in the catalog is accepted: there is a plan entry for it
\* unless its entry in the configuration is refused.
C15_LookupErrorOnly ==
  SinglePlanOver =>
    IF NamedInstalled /\ stack[1].arg \in registry.avail
    THEN \/ Len(stack[1].plan) = 1 /\ stack[1].plan[1].component = stack[1].arg
         \/ status = "raised" /\ error \in {"UserWarning", "AttributeError", "TypeError"}
    ELSE status = "raised" /\ error = "LookupError"

(***************************************************************************)
(* The patch made anew.                                                    *)
(***************************************************************************)
\* ModulesDiffer.try_apply_patch on pristine files: a patch applies to the
\* files of the version it was made from and gives them the user's changes.
apply_patch(patch_base, dir) ==
  IF patch_base = dir.ver /\ ~dir.cust THEN [dir EXCEPT !.cust = TRUE] ELSE NoContent

\* The patch of the entry of the top frame has just been applied.
PatchReconciled ==
  /\ status = "running"
  /\ Top.pc \in {"diff", "install"}
  /\ Entry.patch /\ Top.patch_successful

\* C16: after a patch was applied, the patch in the staged files is the
\* diff from the pristine files of the target version to the patched ones:
\* it is not made against the version that was installed, it is not the
\* old patch, and applied to the pristine files of the target version it
\* gives the patched files that are staged.
C16_PatchAgainstNewBaseline ==
  PatchReconciled =>
    /\ Top.staged.pfile = Top.version
    /\ Top.version # Top.current_version => Top.staged.pfile # Top.current_version
    /\ Top.staged.ver = Top.version /\ Top.staged.cust
    /\ apply_patch(Top.staged.pfile, Content(Top.version, FALSE, NONE))
         = [Top.staged EXCEPT !.pfile = NONE]

\* A patch made against the old version was applied to the latest one.
C16_Witness ==
  /\ PatchReconciled
  /\ Top.current_version = "old" /\ Top.version = "latest"
  /\ DirAt(pipeline, EntryPath).pfile = "old"

(***************************************************************************)
(* The plan.                                                               *)
(***************************************************************************)
\* C17: in the plan of one call, made for one component or for all, the
\* entries of one component of one remote all have the same target
\* version, whatever modules.json and the configuration hold, also when
\* the components of a remote are in several directories.
C17_OneTargetPerComponent ==
  Planned =>
    \A i, j \in 1..Len(Top.plan) :
      Top.plan[i].repo = Top.plan[j].repo /\ Top.plan[i].component = Top.plan[j].component =>
        Top.plan[i].sha = Top.plan[j].sha

\* A bulk plan over a remote with two directories, each with a mapping.
C17_Witness ==
  /\ Planned /\ update_all
  /\ update_config["r1"].kind = "dict"
  /\ update_config["r1"].dirs["nf-core"].kind = "dict"
  /\ update_config["r1"].dirs["other"].kind = "dict"
  /\ \E i \in 1..Len(Top.plan) : Top.plan[i].component = "m4"
  /\ \E i \in 1..Len(Top.plan) : Top.plan[i].component = "m1"

(***************************************************************************)
(* The linked components.                                                  *)
(***************************************************************************)
\* The innermost call was made for a subworkflow by the update of a module
\* and was refused by _parameter_checks.
NestedSubworkflowRefused ==
  /\ Len(stack) > 1
  /\ Top.ctype = SUBWORKFLOWS /\ stack[Len(stack) - 1].ctype = MODULES
  /\ status = "raised" /\ Top.pc = "begin"

\* C18: after a module was installed, in a call for one component or for
\* all, every subworkflow its installed_by names goes through update() as
\* a subworkflow: the nested call is made and gets past the checks of its
\* parameters, and the loop of the caller goes on afterwards.
C18_SubworkflowsOfModuleUpdated ==
  /\ ~NestedSubworkflowRefused
  /\ status = "returned" => \A name \in history.cascaded : NestedCalls(name) >= 1

\* The innermost call was made by the update of a subworkflow and was
\* refused by _parameter_checks.
NestedOfSubworkflowRefused ==
  /\ Len(stack) > 1
  /\ stack[Len(stack) - 1].ctype = SUBWORKFLOWS
  /\ status = "raised" /\ Top.pc = "begin"

\* The component `name` of modules.json names `user` in its installed_by.
InstalledBy(name, user) ==
  \E k \in AllKeys : /\ k.name = name /\ modules_json[k].present
                     /\ user \in modules_json[k].installed_by

\* C19: after a subworkflow was installed, every module and subworkflow of
\* modules.json whose installed_by names it goes through update() with its
\* own type, the nested call getting past the checks of its parameters, and
\* no component that does not name it is updated for it.
C19_UsersOfSubworkflowUpdated ==
  /\ ~NestedOfSubworkflowRefused
  /\ \A d \in 1..Len(stack) :
       stack[d].ctype = SUBWORKFLOWS /\ stack[d].pc = "cascade" =>
         /\ \A i \in 1..Len(stack[d].modules_to_update) :
              /\ TypeOfName(stack[d].modules_to_update[i]) = MODULES
              /\ InstalledBy(stack[d].modules_to_update[i], stack[d].plan[stack[d].i].component)
         /\ \A i \in 1..Len(stack[d].subworkflows_to_update) :
              /\ TypeOfName(stack[d].subworkflows_to_update[i]) = SUBWORKFLOWS
              /\ InstalledBy(stack[d].subworkflows_to_update[i],
                             stack[d].plan[stack[d].i].component)
  /\ \A d \in 2..Len(stack) :
       stack[d - 1].ctype = SUBWORKFLOWS => stack[d].ctype = TypeOfName(stack[d].arg)

(***************************************************************************)
(* The mapping of a remote, on the bulk path.                              *)
(***************************************************************************)
\* The keys of the components of the active type installed from `repo`.
InstalledKeys(repo) ==
  {k \in AllKeys : modules_json[k].present /\ k.repo = repo /\ k.type = component_type}

\* What the rule of the four shapes gives for an entry and the entry one
\* level down: "plan" with a sha, "skip", or "error".
FourWay(entry, below, cli) ==
  IF entry.kind \in {"absent", "true"} THEN [do |-> "plan", sha |-> cli]
  ELSE IF entry.kind = "str" THEN [do |-> "plan", sha |-> entry.sha]
  ELSE IF entry.kind = "false" THEN [do |-> "skip", sha |-> NONE]
  ELSE IF entry.kind = "dict" THEN below
  ELSE [do |-> "error", sha |-> NONE]

\* The rule applied to the directory of the component `k`, then to `k`.
Resolved(k) ==
  LET dc == update_config[k.repo].dirs[k.dir]
  IN  FourWay(dc, FourWay(dc.comps[k.name], [do |-> "error", sha |-> NONE], sha), sha)

\* The planning of a call for all components is over, the entry of r1
\* being a mapping and the entry of r2 a shape that is accepted.
BulkPlanOverMapping ==
  /\ update_all /\ Len(stack) = 1
  /\ update_config["r1"].kind = "dict"
  /\ update_config["r2"].kind \in {"absent", "false", "str"}
  /\ stack[1].pc = "mode" \/ (stack[1].pc = "plan" /\ status = "raised")

\* C20: on the bulk path, under the mapping of a remote, the entry of a
\* directory and the entry of a component are resolved as the entry of a
\* remote is: true or absent plans the component with the sha of the
\* command line, a sha pins it, false skips it, a mapping goes one level
\* down; any other shape, at either level, raises UserWarning.
C20_FourWayAtEachLevel ==
  BulkPlanOverMapping =>
    IF \E k \in InstalledKeys("r1") : Resolved(k).do = "error"
    THEN status = "raised" /\ error = "UserWarning"
    ELSE /\ status = "running"
         /\ \A k \in InstalledKeys("r1") :
              k.name \in registry.avail =>
                IF Resolved(k).do = "skip"
                THEN \A i \in 1..Len(Top.plan) : Top.plan[i].component # k.name
                ELSE \E i \in 1..Len(Top.plan) :
                       /\ Top.plan[i].component = k.name
                       /\ Top.plan[i].sha = Resolved(k).sha

\* The lines of the log that report remotes whose sha overrides --sha.
OverrideRepoLines == {j \in 1..Len(log) : log[j].kind = "override_repos"}

\* How often `r` is named in the line `j` of the log.
TimesNamed(j, r) == Cardinality({n \in 1..Len(log[j].names) : log[j].names[n] = r})

\* C21: on the bulk path, when the entry of a remote is a sha, every
\* component installed from it is planned with that sha, also when the
\* command line gives a sha; the conflict is recorded once for the remote
\* and reported in one summary line.
C21_RepoShaWins ==
  Planned /\ update_all =>
    \A r \in Repos :
      update_config[r].kind = "str" /\ InstalledKeys(r) # {} =>
        /\ \A k \in InstalledKeys(r) :
             /\ k.name \in registry.avail
             /\ <<r, modules_json[k].branch>> \in registry.reachable
             /\ update_config[r].sha \in Shas
             => \E i \in 1..Len(Top.plan) :
                  Top.plan[i].repo = r /\ Top.plan[i].component = k.name
        /\ \A i \in 1..Len(Top.plan) :
             Top.plan[i].repo = r => Top.plan[i].sha = update_config[r].sha
        /\ IF sha # NONE
           THEN /\ Cardinality(OverrideRepoLines) = 1
                /\ \A j \in OverrideRepoLines : TimesNamed(j, r) = 1
           ELSE \A j \in OverrideRepoLines : TimesNamed(j, r) = 0

\* Both remotes have a sha of their own, the command line gives another,
\* and the plan is made.
C21_Witness ==
  /\ Planned /\ update_all
  /\ update_config["r1"].kind = "str" /\ update_config["r2"].kind = "str"
  /\ sha = "old"
  /\ \E i \in 1..Len(Top.plan) : Top.plan[i].component = "m3" /\ Top.plan[i].sha = "latest"
  /\ \E i \in 1..Len(Top.plan) : Top.plan[i].component = "m1" /\ Top.plan[i].sha = "latest"

(***************************************************************************)
(* The filters of the bulk plan.                                           *)
(***************************************************************************)
\* components_info before line 552: what the configuration left.
Candidates ==
  LET start == [infos |-> <<>>, skipped_repos |-> <<>>, skipped_components |-> <<>>,
                overridden_repos |-> <<>>, overridden_components |-> <<>>, error |-> NONE]
  IN  {Tuples(RepoLoop(start, modules_json, update_config, component_type,
                       ReposWith(modules_json, component_type), sha, perm).infos, NONE) :
         perm \in DirPerms}

\* The entry can be updated: its source can be set up, its component is in
\* the catalog, its sha is on the branch.
Updatable(t) ==
  /\ <<t.repo, t.branch>> \in registry.reachable
  /\ t.component \in registry.avail
  /\ t.sha = NONE \/ t.sha \in Shas

\* The place of the first entry of the group of `t` in `cands`.
GroupStart(cands, t) ==
  CHOOSE p \in 1..Len(cands) :
    /\ cands[p].repo = t.repo /\ cands[p].branch = t.branch
    /\ \A q \in 1..(p - 1) : ~(cands[q].repo = t.repo /\ cands[q].branch = t.branch)

\* The place of the entry `e` of the plan in `cands`, 0 if it is not there.
PlaceIn(cands, e) ==
  IF \E p \in 1..Len(cands) : cands[p].repo = e.repo /\ cands[p].component = e.component
                              /\ cands[p].sha = e.sha /\ cands[p].branch = e.branch
  THEN CHOOSE p \in 1..Len(cands) :
         cands[p].repo = e.repo /\ cands[p].component = e.component
         /\ cands[p].sha = e.sha /\ cands[p].branch = e.branch
  ELSE 0

\* C22: on the bulk path the components are grouped by (remote, branch);
\* a group whose source cannot be set up is dropped and the others stay;
\* an entry whose component is not in the catalog or whose sha is not on
\* the branch is dropped; every other entry is in the plan, the groups in
\* the order they first appear and the entries of a group in their order.
C22_GroupsAndFilters ==
  Planned /\ update_all =>
    \E cands \in Candidates :
      /\ \A i \in 1..Len(Top.plan) :
           PlaceIn(cands, Top.plan[i]) # 0 /\ Updatable(Top.plan[i])
      /\ \A p \in 1..Len(cands) :
           Updatable(cands[p]) => \E i \in 1..Len(Top.plan) : PlaceIn(cands, Top.plan[i]) = p
      /\ \A i, j \in 1..Len(Top.plan) :
           i < j =>
             LET a == Top.plan[i]
                 b == Top.plan[j]
             IN  IF a.repo = b.repo /\ a.branch = b.branch
                 THEN PlaceIn(cands, a) < PlaceIn(cands, b)
                 ELSE GroupStart(cands, a) < GroupStart(cands, b)

\* A plan that lost the group of a source that cannot be set up and kept
\* two groups of the other remote.
C22_Witness ==
  /\ Planned /\ update_all
  /\ <<"r1", "master">> \notin registry.reachable
  /\ \E i \in 1..Len(Top.plan) : Top.plan[i].component = "m2"
  /\ \A i \in 1..Len(Top.plan) : Top.plan[i].component # "m1"
  /\ \E i \in 1..Len(Top.plan) : Top.plan[i].component = "m3"

(***************************************************************************)
(* The branch override of a bulk update.                                   *)
(***************************************************************************)
\* The branch modules.json records for the component of a plan entry.
PersistedBranch(e) ==
  LET k == CHOOSE k \in AllKeys :
             k.repo = e.repo /\ k.name = e.component /\ modules_json[k].present
  IN  modules_json[k].branch

\* C23: a bulk update started with --branch asks whether the branch is for
\* all components; after "yes" every plan entry is updated from that
\* branch, after "no" every plan entry is updated from the branch it was
\* installed from.
C23_BranchOverrideAsked ==
  Planned /\ update_all /\ environment.branch # NONE =>
    /\ history.branch_question # "none"
    /\ history.branch_question = "confirmed" =>
         \A i \in 1..Len(Top.plan) : Top.plan[i].branch = environment.branch
    /\ history.branch_question = "declined" =>
         \A i \in 1..Len(Top.plan) : Top.plan[i].branch = PersistedBranch(Top.plan[i])

(***************************************************************************)
(* The entry of the named component in the configuration.                  *)
(***************************************************************************)
\* The kind of the entry the configuration has for the named component in
\* its directory: "absent" when the remote, the directory or the component
\* has no key, "none" when the remote or the directory has a value that is
\* not a mapping.
NamedEntryKind ==
  LET rc == update_config[SelfRepo]
      dc == rc.dirs[InstallDir(stack[1].arg)]
  IN  IF rc.kind = "absent" THEN "absent"
      ELSE IF rc.kind # "dict" THEN "none"
      ELSE IF dc.kind = "absent" THEN "absent"
      ELSE IF dc.kind # "dict" THEN "none"
      ELSE dc.comps[stack[1].arg].kind

\* The named component passes the checks of lines 284-311: it is among the
\* installed components the command can choose from and in the catalog.
NamedAccepted ==
  /\ stack[1].arg \in Choices(modules_json, component_type, SelfRepo)
  /\ stack[1].arg \in registry.avail

\* C24: on the single-component path, for a component that passes the
\* checks of installation and catalog, an entry `false` and an entry that
\* is neither a boolean nor a string both end the call with UserWarning
\* and without a plan entry; an entry `true` and no entry at all give one
\* plan entry whose sha is the sha of the command line, or none.
C24_EntryShapesOnSinglePath ==
  SinglePlanOver /\ NamedAccepted =>
    /\ NamedEntryKind \in {"false", "bad"} =>
         status = "raised" /\ error = "UserWarning" /\ stack[1].plan = <<>>
    /\ NamedEntryKind \in {"true", "absent"} =>
         /\ status = "running"
         /\ Len(stack[1].plan) = 1
         /\ stack[1].plan[1].component = stack[1].arg
         /\ stack[1].plan[1].sha = sha

\* The call for m1 was refused because its entry is `false`.
C24_Witness ==
  /\ SinglePlanOver /\ stack[1].arg = "m1"
  /\ NamedEntryKind = "false"
  /\ status = "raised" /\ error = "UserWarning"

(***************************************************************************)
(* The silent mode installs.                                               *)
(***************************************************************************)
\* The key of modules.json of the entry of the top frame.
EntryKey == Key(Entry.repo, component_type, RepoPath(Entry.repo), Entry.component)

\* C25: in the mode without diffs an entry that is not skipped and whose
\* files were staged goes on to be installed (through the patch when it has
\* one, unless the run is ended by an exception), and the installation
\* leaves in the component directory exactly the staged files and records
\* the version of the entry under its key in modules.json in memory and on
\* disk.
C25_SilentInstalls ==
  [][Silent /\ status = "running" =>
       /\ Running("stage") /\ history'.staged # history.staged =>
            stack'[Len(stack')].pc \in {"patch", "install"}
       /\ Running("patch") /\ status' = "running" =>
            stack'[Len(stack')].pc = "install"
       /\ Running("install") =>
            /\ DirAt(pipeline', EntryPath) = Top.staged
            /\ Top.staged.ver = Top.version
            /\ modules_json'[EntryKey].present /\ modules_json'[EntryKey].git_sha = Top.version
            /\ disk_json'[EntryKey].present /\ disk_json'[EntryKey].git_sha = Top.version]_vars

\* m1 was installed over its patched files after the patch failed: none of
\* the old files is left.
C25_Witness ==
  /\ Silent /\ Running("cascade")
  /\ Entry.component = "m1"
  /\ "m1" \in history.patch_failures
  /\ DirAt(pipeline, EntryPath) = Content(Top.version, FALSE, "old")
  /\ disk_json[EntryKey].git_sha = Top.version

(***************************************************************************)
(* The temporary directories.                                              *)
(***************************************************************************)
\* C26: the temporary directories made for an entry are gone when the
\* entry is done with; none is left when update() has returned.
C26_NoTmpDirLeft ==
  status = "returned" => tmp_dirs = NoTmpDirs

(***************************************************************************)
(* The end of the nested calls.                                            *)
(***************************************************************************)
\* No chain of installed-by comes back to where it started: modules are
\* installed by subworkflows only, and subworkflows by no component.
InstalledByAcyclic ==
  \A k \in AllKeys :
    modules_json[k].present =>
      IF k.type = MODULES
      THEN modules_json[k].installed_by \subseteq {MODULES, "s1"}
      ELSE modules_json[k].installed_by \subseteq {SUBWORKFLOWS}

\* A call of update() for a component has installed it and is updating
\* its linked components, inside a call of update() for the same component
\* that installed the same version and stands at the same place: the
\* inner call has gone the way of the outer one and, the flags and the
\* remote being the same, goes on as the outer one did, to a third call for
\* the component, and so on.
CallInsideItself ==
  \E i, j \in 1..Len(stack) :
    /\ i < j
    /\ stack[i].arg # NONE
    /\ stack[i].arg = stack[j].arg /\ stack[i].ctype = stack[j].ctype
    /\ stack[i].pc = "cascade" /\ stack[j].pc = "cascade"
    /\ stack[i].version = stack[j].version
    /\ stack[j].subworkflows_to_update = stack[i].subworkflows_to_update
    /\ stack[j].modules_to_update = stack[i].modules_to_update

\* C27: when the installed-by relation has no cycle, an update without
\* diffs ends after finitely many nested calls, whatever force and the
\* sha are: the nested calls do not come back to the component and the
\* place of a call that is still active.
C27_NestedCallsEnd ==
  Silent /\ InstalledByAcyclic => ~CallInsideItself

(***************************************************************************)
(* The bulk plan is complete.                                              *)
(***************************************************************************)
\* The rule of the four shapes from the entry of the remote down to the
\* component `k`.
ResolvedFromRepo(k) == FourWay(update_config[k.repo], Resolved(k), sha)

\* How often the component `k` is in the plan of the top frame.
TimesPlanned(k) ==
  Cardinality({i \in 1..Len(Top.plan) :
                 Top.plan[i].repo = k.repo /\ Top.plan[i].component = k.name})

\* C28: the plan of a call for all components has, exactly once, every
\* installed component that no level of the configuration skips, whose
\* source can be set up, that is in the catalog and whose sha exists; also
\* when a remote has components in two directories and a mapping with a
\* different shape for each, in whatever order the directories are visited.
C28_BulkPlanComplete ==
  Planned /\ update_all =>
    \A r \in Repos :
      \A k \in InstalledKeys(r) :
        /\ ResolvedFromRepo(k).do = "plan"
        /\ ResolvedFromRepo(k).sha = NONE \/ ResolvedFromRepo(k).sha \in Shas
        /\ <<r, modules_json[k].branch>> \in registry.reachable
        /\ k.name \in registry.avail
        => TimesPlanned(k) = 1

(***************************************************************************)
(* The remote of the entry.                                                *)
(***************************************************************************)
\* C29: for every plan entry, also one of a remote that is not the remote
\* of the command, modules.json is read and written under the remote of
\* the entry: once the entry is installed and recorded under its remote,
\* the lookup of its installed-by list finds it and the run goes on.
C29_EntryRemoteUsed ==
  [][Running("install")
     /\ Recorded(modules_json', component_type, Entry.component, Entry.repo,
                 RepoPath(Entry.repo))
     => status' = "running"]_vars

(***************************************************************************)
(* modules.json on disk and the directories.                               *)
(***************************************************************************)
\* modules.json `json` describes the directories `fs`: each component it
\* records is in its directory at the recorded version, and each patch it
\* records is a file of that directory.
Describes(json, fs) ==
  \A k \in AllKeys :
    json[k].present =>
      /\ DirAt(fs, Path(k.type, k.dir, k.name)).ver = json[k].git_sha
      /\ json[k].patch => DirAt(fs, Path(k.type, k.dir, k.name)).pfile # NONE

\* C30: when update() returns, in whatever mode and after whatever answers,
\* patch outcomes and staging failures, modules.json on disk describes the
\* directories, as it did when the command was started.
C30_DiskStateDescribesDirectories ==
  /\ status = "returned"
  /\ history.run = 1
  /\ Describes(history.start.json, history.start.fs)
  => Describes(disk_json, pipeline)

====
